---- MODULE Spec2Model ----
(***************************************************************************)
(* Model of lib/fs/src/lib.rs: the IPFS-backed virtual filesystem adapter  *)
(* (IpfsFs) and the file handle it produces (IpfsFile).                    *)
(*                                                                         *)
(* Host execution contexts call the filesystem and handle operations.      *)
(* open() is the only operation that spans several steps: it issues the    *)
(* asynchronous fetch, blocks until the fetch completes, then returns.     *)
(* Every other operation is one atomic step.                               *)
(***************************************************************************)
EXTENDS Integers, Sequences, FiniteSets, TLC

VARIABLES
    fs,        \* the IpfsFs value: [client]
    handles,   \* the IpfsFile values produced so far, in order of creation
    ctx,       \* per host context: where it is inside open()
    fetches,   \* number of get_file calls issued to the client
    opens,     \* number of open calls made
    keyed,     \* number of open calls made with a path that is valid UTF-8
    last       \* the most recent step: operation, arguments, result, pre-state

vars == <<fs, handles, ctx, fetches, opens, keyed, last>>

----------------------------------------------------------------------------
(* Bounds of the model *)

\* total number of open calls explored
MaxOpens == 2

\* the host execution contexts
Contexts == {"c1", "c2"}

----------------------------------------------------------------------------
(* Byte strings used as inputs *)

\* "hello world"
HelloWorld == <<104, 101, 108, 108, 111, 32, 119, 111, 114, 108, 100>>

\* "hi"
Hi == <<104, 105>>

\* "/a"
PathA == <<47, 97>>

\* "/" followed by U+00E9 encoded in two bytes
PathE == <<47, 195, 169>>

\* "/m", a key the store does not hold
PathMissing == <<47, 109>>

\* "/" followed by the byte 0xFF: not valid UTF-8
PathBad == <<47, 255>>

Paths == {PathA, PathE, PathMissing, PathBad}

\* open-options configurations the host may pass to open
ConfReadOnly == [read |-> TRUE, write |-> FALSE, create |-> FALSE,
                 truncate |-> FALSE, append |-> FALSE]

ConfWrite == [read |-> TRUE, write |-> TRUE, create |-> TRUE,
              truncate |-> TRUE, append |-> FALSE]

Confs == {ConfReadOnly, ConfWrite}

\* read buffer capacities
Caps == {0, 5, 11}

\* std::io::SeekFrom
SeekStart(n) == [whence |-> "Start", off |-> n]

SeekEnd(n) == [whence |-> "End", off |-> n]

SeekCurrent(n) == [whence |-> "Current", off |-> n]

NoSeek == [whence |-> "None", off |-> 0]

SeekPositions == {SeekStart(6), SeekStart(12), SeekEnd(-5), SeekCurrent(-1)}

\* buffers handed to write
WriteBufs == {<<>>, Hi}

----------------------------------------------------------------------------
(* Result values *)

Unit == <<>>

Ok(v) == [ok |-> TRUE, ty |-> "", kind |-> "", val |-> v]

\* wasmer_wasix::FsError
FsErr(k) == [ok |-> FALSE, ty |-> "FsError", kind |-> k, val |-> Unit]

\* std::io::Error
IoErr(k) == [ok |-> FALSE, ty |-> "io::Error", kind |-> k, val |-> Unit]

\* std::task::Poll
Ready(r) == [poll |-> "Ready", res |-> r]

Pending == [poll |-> "Pending", res |-> Ok(Unit)]

None == [some |-> FALSE, val |-> Unit]

Some(v) == [some |-> TRUE, val |-> v]

----------------------------------------------------------------------------
(* Path::to_str: the path as a string when its bytes are valid UTF-8 *)

IsCont(b) == b >= 128 /\ b <= 191

RECURSIVE ValidUtf8(_)
ValidUtf8(s) ==
    IF s = <<>> THEN TRUE
    ELSE LET b == Head(s)
             n == Len(s)
         IN  IF b < 128 THEN ValidUtf8(Tail(s))
             ELSE IF b >= 194 /\ b <= 223
                  THEN n >= 2 /\ IsCont(s[2]) /\ ValidUtf8(SubSeq(s, 3, n))
             ELSE IF b >= 224 /\ b <= 239
                  THEN /\ n >= 3
                       /\ IsCont(s[2]) /\ IsCont(s[3])
                       /\ (b = 224 => s[2] >= 160)
                       /\ (b = 237 => s[2] <= 159)
                       /\ ValidUtf8(SubSeq(s, 4, n))
             ELSE IF b >= 240 /\ b <= 244
                  THEN /\ n >= 4
                       /\ IsCont(s[2]) /\ IsCont(s[3]) /\ IsCont(s[4])
                       /\ (b = 240 => s[2] >= 144)
                       /\ (b = 244 => s[2] <= 143)
                       /\ ValidUtf8(SubSeq(s, 5, n))
             ELSE FALSE

ToStr(path) == IF ValidUtf8(path) THEN Some(path) ELSE None

----------------------------------------------------------------------------
(* The retrieval client (net::ipfs::Client), an external collaborator *)

Store == [k \in {PathA, PathE} |-> IF k = PathA THEN HelloWorld ELSE Hi]

\* the results a get_file(key) future may complete with
ClientOutcomes(key) ==
    IF key \in DOMAIN Store
    THEN {Ok(Store[key]), IoErr("network")}
    ELSE {IoErr("notfound"), IoErr("network")}

----------------------------------------------------------------------------
(* IpfsFs: the filesystem adapter *)

\* IpfsFs::new
IpfsFs_new(client) == [client |-> client]

\* Each filesystem operation yields the adapter after the call (the methods
\* take &self), the keys it asked the client to fetch, and its result.
FsReply(self, requests, ret) ==
    [self |-> self, requests |-> requests, ret |-> ret]

Readlink(self, path) == FsReply(self, <<>>, FsErr("Unsupported"))

ReadDir(self, path) == FsReply(self, <<>>, FsErr("Unsupported"))

CreateDir(self, path) == FsReply(self, <<>>, FsErr("Unsupported"))

RemoveDir(self, path) == FsReply(self, <<>>, FsErr("Unsupported"))

\* the returned future is ready with the error on its first poll
Rename(self, from, to) == FsReply(self, <<>>, Ready(FsErr("Unsupported")))

\* virtual_fs::Metadata::default()
DefaultMetadata ==
    [ft |-> [dir |-> FALSE, file |-> FALSE, symlink |-> FALSE],
     accessed |-> 0, created |-> 0, modified |-> 0, len |-> 0]

\* variant: metadata looks the key up and fails for a path that is no
\* stored key
Metadata_lookup(self, path) ==
    IF ToStr(path).some /\ ToStr(path).val \in DOMAIN Store
    THEN FsReply(self, <<>>, Ok(DefaultMetadata))
    ELSE FsReply(self, <<>>, FsErr("EntryNotFound"))

Metadata(self, path) == FsReply(self, <<>>, Ok(DefaultMetadata))

SymlinkMetadata(self, path) == FsReply(self, <<>>, FsErr("Unsupported"))

\* variant: remove_file reports success
RemoveFile_ok(self, path) == FsReply(self, <<>>, Ok(Unit))

RemoveFile(self, path) == FsReply(self, <<>>, FsErr("Unsupported"))

\* OpenOptions::new(self) followed by read(true)
NewOpenOptions(self) ==
    FsReply(self, <<>>, Ok([read |-> TRUE, write |-> FALSE, create |-> FALSE,
                            truncate |-> FALSE, append |-> FALSE]))

Mount(self, name, path, other) == FsReply(self, <<>>, FsErr("Unsupported"))

----------------------------------------------------------------------------
(* IpfsFile: construction *)

\* std::io::Cursor::new
Cursor_new(bytes) == [inner |-> bytes, pos |-> 0]

\* IpfsFile::new
IpfsFile_new(path, bytes) ==
    [path |-> path, size |-> Len(bytes), cursor |-> Cursor_new(bytes)]

----------------------------------------------------------------------------
(* IpfsFs::open (impl FileOpener) *)

\* variant: the key is taken with a lossy conversion (U+FFFD for bad bytes),
\* so every path reaches get_file
OpenBegin_lossy(self, path, conf) ==
    LET key == IF ValidUtf8(path) THEN path ELSE <<239, 191, 189>>
    IN  [self |-> self, returned |-> FALSE, ret |-> Ok(Unit),
         requests |-> <<key>>, key |-> key]

\* variant: a key that an existing handle already holds is not fetched again
OpenBegin_cached(self, path, conf) ==
    LET path_str == ToStr(path)
    IN  IF ~path_str.some
        THEN [self |-> self, returned |-> TRUE, ret |-> FsErr("EntryNotFound"),
              requests |-> <<>>, key |-> <<>>]
        ELSE [self |-> self, returned |-> FALSE, ret |-> Ok(Unit),
              requests |-> IF \E i \in 1..Len(handles) :
                                 handles[i].path = path_str.val
                           THEN <<>> ELSE <<path_str.val>>,
              key |-> path_str.val]

\* variant: a request for write access is turned down
OpenBegin_rejectWrite(self, path, conf) ==
    LET path_str == ToStr(path)
    IN  IF ~path_str.some
        THEN [self |-> self, returned |-> TRUE, ret |-> FsErr("EntryNotFound"),
              requests |-> <<>>, key |-> <<>>]
        ELSE IF conf.write
        THEN [self |-> self, returned |-> TRUE,
              ret |-> FsErr("PermissionDenied"),
              requests |-> <<>>, key |-> <<>>]
        ELSE [self |-> self, returned |-> FALSE, ret |-> Ok(Unit),
              requests |-> <<path_str.val>>, key |-> path_str.val]

\* variant: the adapter keeps the key of the last open
OpenBegin_remember(self, path, conf) ==
    LET path_str == ToStr(path)
    IN  IF ~path_str.some
        THEN [self |-> self, returned |-> TRUE, ret |-> FsErr("EntryNotFound"),
              requests |-> <<>>, key |-> <<>>]
        ELSE [self |-> [client |-> <<self.client, path_str.val>>],
              returned |-> FALSE, ret |-> Ok(Unit),
              requests |-> <<path_str.val>>, key |-> path_str.val]

\* open, first half: the key conversion and the call of get_file
OpenBegin(self, path, conf) ==
    LET path_str == ToStr(path)
    IN  IF ~path_str.some
        THEN [self |-> self, returned |-> TRUE, ret |-> FsErr("EntryNotFound"),
              requests |-> <<>>, key |-> <<>>]
        ELSE [self |-> self, returned |-> FALSE, ret |-> Ok(Unit),
              requests |-> <<path_str.val>>, key |-> path_str.val]

\* variant: the future is polled once and open goes on whatever the poll said
BlockOnReturns_once(fut) == fut.state \in {"pending", "ready"}

\* block_on returns when the future it drives is ready
BlockOnReturns(fut) == fut.state = "ready"

\* variant: a failed fetch yields a handle over no bytes
OpenFinish_empty(path_str, bytes) ==
    IF bytes.ok
    THEN Ok(IpfsFile_new(path_str, bytes.val))
    ELSE Ok(IpfsFile_new(path_str, <<>>))

\* open, second half: the match on the fetched bytes
OpenFinish(path_str, bytes) ==
    IF bytes.ok
    THEN Ok(IpfsFile_new(path_str, bytes.val))
    ELSE FsErr("IOError")

----------------------------------------------------------------------------
(* IpfsFile: the stream and VirtualFile operations *)

\* tokio::io::ReadBuf over a buffer of the given capacity
ReadBuf_new(cap) == [cap |-> cap, filled |-> <<>>]

FileReply(file, ret) == [file |-> file, ret |-> ret]

PollRead(file, buf) == [file |-> file, buf |-> buf, ret |-> Ready(Ok(Unit))]

\* variant: the seek target is stored in the cursor as computed, unclamped
StartSeek_unclamped(file, position) ==
    LET base == IF position.whence = "Start" THEN 0
                ELSE IF position.whence = "End" THEN file.size
                ELSE file.cursor.pos
    IN  FileReply([file EXCEPT !.cursor.pos = base + position.off], Ok(Unit))

StartSeek(file, position) == FileReply(file, Ok(Unit))

PollComplete(file) == FileReply(file, Ready(Ok(0)))

\* variant: write appends to the buffer and reports the bytes taken
PollWrite_append(file, buf) ==
    FileReply([file EXCEPT !.cursor.inner = file.cursor.inner \o buf],
              Ready(Ok(Len(buf))))

PollWrite(file, buf) == FileReply(file, Ready(IoErr("Unsupported")))

\* variant: flush has nothing to do and reports success
PollFlush_ok(file) == FileReply(file, Ready(Ok(Unit)))

PollFlush(file) == FileReply(file, Ready(IoErr("Unsupported")))

PollShutdown(file) == FileReply(file, Ready(IoErr("Unsupported")))

LastAccessed(file) == FileReply(file, 0)

LastModified(file) == FileReply(file, 0)

CreatedTime(file) == FileReply(file, 0)

SetTimes(file, atime, mtime) == FileReply(file, FsErr("Unsupported"))

Size(file) == FileReply(file, file.size)

SetLen(file, new_size) == FileReply(file, FsErr("Unsupported"))

Unlink(file) == FileReply(file, FsErr("Unsupported"))

IsOpen(file) == FileReply(file, TRUE)

GetSpecialFd(file) == FileReply(file, None)

WriteFromMmap(file, offset, len) == FileReply(file, IoErr("Unsupported"))

\* variant: readiness is not known yet
PollReadReady_pending(file) == FileReply(file, Pending)

PollReadReady(file) == FileReply(file, Ready(Ok(0)))

PollWriteReady(file) == FileReply(file, Ready(Ok(0)))

\* AsyncReadExt::read: one poll_read into a fresh ReadBuf over the caller's
\* buffer; the value is the number of bytes the poll filled in
ReadCall(file, cap) ==
    LET r == PollRead(file, ReadBuf_new(cap))
    IN  [file |-> r.file,
         poll |-> r.ret.poll,
         ret  |-> IF r.ret.res.ok THEN Ok(Len(r.buf.filled)) ELSE r.ret.res,
         out  |-> r.buf.filled]

\* AsyncSeekExt::seek: start_seek, then poll_complete
SeekCall(file, position) ==
    LET s == StartSeek(file, position)
    IN  IF ~s.ret.ok
        THEN [file |-> s.file, poll |-> "Ready", ret |-> s.ret]
        ELSE LET p == PollComplete(s.file)
             IN  [file |-> p.file, poll |-> p.ret.poll, ret |-> p.ret.res]

----------------------------------------------------------------------------
(* copy_reference: tokio::io::copy from the source into this handle *)

\* A source is any VirtualFile.  It is a handle of this adapter (kind "ipfs",
\* read through PollRead), or a stream whose successive poll_read calls give
\* the outcomes of its script and then end-of-file.
SrcData(bytes) == [t |-> "data", bytes |-> bytes, kind |-> ""]

SrcPending == [t |-> "pending", bytes |-> <<>>, kind |-> ""]

SrcErr(kind) == [t |-> "err", bytes |-> <<>>, kind |-> kind]

Stream(script) ==
    [kind |-> "stream", file |-> IpfsFile_new(<<>>, <<>>), script |-> script]

Sources ==
    [name \in {"ipfs", "empty", "data", "late", "broken"} |->
        CASE name = "ipfs"   -> [kind |-> "ipfs",
                                 file |-> IpfsFile_new(PathA, HelloWorld),
                                 script |-> <<>>]
          [] name = "empty"  -> Stream(<<>>)
          [] name = "data"   -> Stream(<<SrcData(Hi)>>)
          [] name = "late"   -> Stream(<<SrcPending, SrcData(Hi)>>)
          [] name = "broken" -> Stream(<<SrcErr("BrokenPipe")>>)]

\* one poll_read of the source into the copy buffer
SrcRead(src) ==
    IF src.kind = "ipfs"
    THEN LET r == PollRead(src.file, ReadBuf_new(Len(src.file.cursor.inner)))
         IN  [src |-> [src EXCEPT !.file = r.file], poll |-> r.ret.poll,
              res |-> r.ret.res, bytes |-> r.buf.filled]
    ELSE IF src.script = <<>>
    THEN [src |-> src, poll |-> "Ready", res |-> Ok(Unit), bytes |-> <<>>]
    ELSE LET o == Head(src.script)
             rest == [src EXCEPT !.script = Tail(src.script)]
         IN  CASE o.t = "pending" ->
                    [src |-> rest, poll |-> "Pending", res |-> Ok(Unit),
                     bytes |-> <<>>]
               [] o.t = "err" ->
                    [src |-> rest, poll |-> "Ready", res |-> IoErr(o.kind),
                     bytes |-> <<>>]
               [] OTHER ->
                    [src |-> rest, poll |-> "Ready", res |-> Ok(Unit),
                     bytes |-> o.bytes]

\* what the copy future ends with: the handle, whether a poll of it reported
\* Pending, whether it ever completes, and its result
CopyEnd(file, suspended, done, ret) ==
    [file |-> file, suspended |-> suspended, done |-> done, ret |-> ret]

\* the write loop of the copy: poll_write until the chunk is written
RECURSIVE CopyWrite(_, _, _, _)
CopyWrite(file, bytes, suspended, amt) ==
    IF bytes = <<>>
    THEN CopyEnd(file, suspended, TRUE, Ok(amt))
    ELSE LET w == PollWrite(file, bytes)
         IN  IF w.ret.poll = "Pending"
             THEN CopyEnd(w.file, TRUE, FALSE, Ok(amt))
             ELSE IF ~w.ret.res.ok
             THEN CopyEnd(w.file, suspended, TRUE, w.ret.res)
             ELSE IF w.ret.res.val = 0
             THEN CopyEnd(w.file, suspended, TRUE, IoErr("WriteZero"))
             ELSE CopyWrite(w.file,
                            SubSeq(bytes, w.ret.res.val + 1, Len(bytes)),
                            suspended, amt + w.ret.res.val)

\* the copy loop: read a chunk, write it out; at end-of-file flush and report
\* the bytes copied; the first error of a read, a write or the flush ends it
RECURSIVE CopyLoop(_, _, _, _)
CopyLoop(file, src, suspended, amt) ==
    LET r == SrcRead(src)
    IN  IF r.poll = "Pending"
        THEN IF src.kind = "ipfs"
             THEN CopyEnd(file, TRUE, FALSE, Ok(amt))
             ELSE CopyLoop(file, r.src, TRUE, amt)
        ELSE IF ~r.res.ok
        THEN CopyEnd(file, suspended, TRUE, r.res)
        ELSE IF r.bytes = <<>>
        THEN LET f == PollFlush(file)
             IN  IF f.ret.poll = "Pending"
                 THEN CopyEnd(f.file, TRUE, FALSE, Ok(amt))
                 ELSE IF ~f.ret.res.ok
                 THEN CopyEnd(f.file, suspended, TRUE, f.ret.res)
                 ELSE CopyEnd(f.file, suspended, TRUE, Ok(amt))
        ELSE LET w == CopyWrite(file, r.bytes, suspended, amt)
             IN  IF ~w.done \/ ~w.ret.ok
                 THEN w
                 ELSE CopyLoop(w.file, r.src, w.suspended, w.ret.val)

\* IpfsFile::copy_reference: the copy, its byte count dropped
CopyReference(file, src) ==
    LET c == CopyLoop(file, src, FALSE, 0)
    IN  [c EXCEPT !.ret = IF c.ret.ok THEN Ok(Unit) ELSE c.ret]

----------------------------------------------------------------------------
(* State machine *)

Idle == [pc |-> "idle", path_str |-> <<>>, conf |-> ConfReadOnly,
         fut |-> [state |-> "none", res |-> Ok(Unit)]]

\* the outcome of a result without its value: Ok, or the error
St(r) == [r EXCEPT !.val = Unit]

\* the number an Ok result carries
IntOf(r) == IF r.ok THEN r.val ELSE 0

\* the one record an Ok result carries
RecOf(r) == IF r.ok THEN <<r.val>> ELSE <<>>

\* The record of a step, before the step fills in what it did.  ret, sret and
\* ret2 hold the outcomes of the calls; the values they returned are in n, sn,
\* n2 (numbers), out, out2, fetched (bytes), flag (a boolean) and recs
\* (records).  The pre fields hold the state the step started from.
Blank ==
    [op |-> "", h |-> 0, path |-> <<>>, cap |-> 0, pos |-> NoSeek, cap2 |-> 0,
     data |-> <<>>, poll |-> "sync", ret |-> Ok(Unit), out |-> <<>>,
     sret |-> Ok(Unit), ret2 |-> Ok(Unit), out2 |-> <<>>,
     n |-> 0, sn |-> 0, n2 |-> 0, fetched |-> <<>>, flag |-> FALSE,
     recs |-> <<>>, times |-> <<>>, src |-> "",
     conf |-> ConfReadOnly,
     requests |-> <<>>, mid |-> <<>>,
     preHandles |-> handles, preFetches |-> fetches, preFs |-> fs]

Init ==
    /\ fs = IpfsFs_new("client")
    /\ handles = <<>>
    /\ ctx = [c \in Contexts |-> Idle]
    /\ fetches = 0
    /\ opens = 0
    /\ keyed = 0
    /\ last = [Blank EXCEPT !.op = "init", !.preHandles = <<>>,
                            !.preFetches = 0, !.preFs = IpfsFs_new("client")]

HandleIds == 1..Len(handles)

\* some host context is free to make a call
AnyIdle == \E c \in Contexts : ctx[c].pc = "idle"

\* a filesystem call that returns at once with reply r
FsStep(op, path, data, r, poll, ret) ==
    /\ AnyIdle
    /\ fs' = r.self
    /\ fetches' = fetches + Len(r.requests)
    /\ last' = [Blank EXCEPT !.op = op, !.path = path, !.data = data,
                             !.poll = poll, !.ret = St(ret),
                             !.recs = IF op \in {"metadata", "new_open_options"}
                                      THEN RecOf(ret) ELSE <<>>,
                             !.requests = r.requests]
    /\ UNCHANGED <<handles, ctx, opens, keyed>>

ReadlinkStep(path) ==
    LET r == Readlink(fs, path) IN FsStep("readlink", path, <<>>, r, "sync", r.ret)

ReadDirStep(path) ==
    LET r == ReadDir(fs, path) IN FsStep("read_dir", path, <<>>, r, "sync", r.ret)

CreateDirStep(path) ==
    LET r == CreateDir(fs, path) IN FsStep("create_dir", path, <<>>, r, "sync", r.ret)

RemoveDirStep(path) ==
    LET r == RemoveDir(fs, path) IN FsStep("remove_dir", path, <<>>, r, "sync", r.ret)

RenameStep(from, to) ==
    LET r == Rename(fs, from, to)
    IN  FsStep("rename", from, to, r, r.ret.poll, r.ret.res)

MetadataStep(path) ==
    LET r == Metadata(fs, path) IN FsStep("metadata", path, <<>>, r, "sync", r.ret)

SymlinkMetadataStep(path) ==
    LET r == SymlinkMetadata(fs, path)
    IN  FsStep("symlink_metadata", path, <<>>, r, "sync", r.ret)

RemoveFileStep(path) ==
    LET r == RemoveFile(fs, path) IN FsStep("remove_file", path, <<>>, r, "sync", r.ret)

NewOpenOptionsStep ==
    LET r == NewOpenOptions(fs)
    IN  FsStep("new_open_options", <<>>, <<>>, r, "sync", r.ret)

MountStep(name, path) ==
    LET r == Mount(fs, name, path, IpfsFs_new("other"))
    IN  FsStep("mount", path, name, r, "sync", r.ret)

\* open is called: the key conversion fails and open returns, or the fetch
\* is issued and the context blocks on it
OpenCall(c, path, conf) ==
    /\ ctx[c].pc = "idle"
    /\ opens < MaxOpens
    /\ opens' = opens + 1
    /\ keyed' = IF ValidUtf8(path) THEN keyed + 1 ELSE keyed
    /\ LET r == OpenBegin(fs, path, conf)
       IN  /\ fs' = r.self
           /\ fetches' = fetches + Len(r.requests)
           /\ IF r.returned
              THEN /\ ctx' = ctx
                   /\ last' = [Blank EXCEPT !.op = "open", !.path = path,
                                            !.conf = conf,
                                            !.ret = r.ret,
                                            !.requests = r.requests]
              ELSE /\ ctx' = [ctx EXCEPT ![c] =
                                [pc |-> "open", path_str |-> r.key,
                                 conf |-> conf,
                                 fut |-> [state |-> "pending", res |-> Ok(Unit)]]]
                   /\ last' = [Blank EXCEPT !.op = "open_call", !.path = path,
                                            !.conf = conf,
                                            !.poll = "Pending",
                                            !.requests = r.requests]
    /\ UNCHANGED handles

\* the client completes the fetch a blocked context waits for
FetchComplete(c) ==
    /\ ctx[c].pc = "open"
    /\ ctx[c].fut.state = "pending"
    /\ \E res \in ClientOutcomes(ctx[c].path_str) :
          /\ ctx' = [ctx EXCEPT ![c].fut = [state |-> "ready", res |-> res]]
          /\ last' = [Blank EXCEPT !.op = "fetch_complete",
                                   !.path = ctx[c].path_str,
                                   !.sret = St(res), !.fetched = res.val]
    /\ UNCHANGED <<fs, handles, fetches, opens, keyed>>

\* block_on returns and open returns the handle or the error
OpenReturn(c) ==
    /\ ctx[c].pc = "open"
    /\ BlockOnReturns(ctx[c].fut)
    /\ LET ret == OpenFinish(ctx[c].path_str, ctx[c].fut.res)
       IN  /\ handles' = IF ret.ok THEN Append(handles, ret.val) ELSE handles
           /\ last' = [Blank EXCEPT !.op = "open", !.path = ctx[c].path_str,
                                    !.h = IF ret.ok THEN Len(handles) + 1 ELSE 0,
                                    !.sret = St(ctx[c].fut.res),
                                    !.fetched = ctx[c].fut.res.val,
                                    !.poll = ctx[c].fut.state,
                                    !.conf = ctx[c].conf,
                                    !.ret = St(ret)]
    /\ ctx' = [ctx EXCEPT ![c] = Idle]
    /\ UNCHANGED <<fs, fetches, opens, keyed>>

\* a call on handle h that leaves the handle as file
FileStep(h, file, ev) ==
    /\ AnyIdle
    /\ h \in HandleIds
    /\ handles' = [handles EXCEPT ![h] = file]
    /\ last' = ev
    /\ UNCHANGED <<fs, ctx, fetches, opens, keyed>>

ReadStep(h, cap) ==
    /\ h \in HandleIds
    /\ LET r == ReadCall(handles[h], cap)
       IN  FileStep(h, r.file,
                    [Blank EXCEPT !.op = "read", !.h = h, !.cap = cap,
                                  !.poll = r.poll, !.ret = St(r.ret),
                                  !.n = IntOf(r.ret), !.out = r.out])

SeekStep(h, position) ==
    /\ h \in HandleIds
    /\ LET r == SeekCall(handles[h], position)
       IN  FileStep(h, r.file,
                    [Blank EXCEPT !.op = "seek", !.h = h, !.pos = position,
                                  !.poll = r.poll, !.ret = St(r.ret),
                                  !.n = IntOf(r.ret)])

\* seek, then read on the same handle with nothing in between
SeekThenRead(h, position, cap) ==
    /\ h \in HandleIds
    /\ LET s == SeekCall(handles[h], position)
           r == ReadCall(s.file, cap)
       IN  FileStep(h, r.file,
                    [Blank EXCEPT !.op = "seek_read", !.h = h,
                                  !.pos = position, !.cap = cap,
                                  !.sret = St(s.ret), !.sn = IntOf(s.ret),
                                  !.mid = <<s.file>>,
                                  !.poll = r.poll, !.ret = St(r.ret),
                                  !.n = IntOf(r.ret), !.out = r.out])

\* read, then seek relative to the end by -m, then read with capacity m, on
\* the same handle with nothing in between
ReadSeekRead(h, cap, position) ==
    /\ h \in HandleIds
    /\ LET cap2 == -position.off
           r1 == ReadCall(handles[h], cap)
           s  == SeekCall(r1.file, position)
           r2 == ReadCall(s.file, cap2)
       IN  FileStep(h, r2.file,
                    [Blank EXCEPT !.op = "read_seek_read", !.h = h,
                                  !.cap = cap, !.pos = position, !.cap2 = cap2,
                                  !.ret = St(r1.ret), !.n = IntOf(r1.ret),
                                  !.out = r1.out,
                                  !.sret = St(s.ret), !.sn = IntOf(s.ret),
                                  !.mid = <<r1.file, s.file>>,
                                  !.poll = r2.poll,
                                  !.ret2 = St(r2.ret), !.n2 = IntOf(r2.ret),
                                  !.out2 = r2.out])

\* a poll-based call: the event carries the poll state and the polled result
\* (write and the readiness polls return a number, flush and shutdown nothing)
PollStep(h, op, data, r) ==
    FileStep(h, r.file,
             [Blank EXCEPT !.op = op, !.h = h, !.data = data,
                           !.poll = r.ret.poll, !.ret = St(r.ret.res),
                           !.n = IF op \in {"flush", "shutdown"} THEN 0
                                 ELSE IntOf(r.ret.res)])

\* a call that returns at once: a Result without a value, or a number
SyncStep(h, op, cap, r, ret) ==
    FileStep(h, r.file,
             [Blank EXCEPT !.op = op, !.h = h, !.cap = cap, !.ret = St(ret),
                           !.n = IF op \in {"set_len", "unlink"} THEN 0
                                 ELSE IntOf(ret)])

WriteStep(h, buf) ==
    h \in HandleIds /\ PollStep(h, "write", buf, PollWrite(handles[h], buf))

FlushStep(h) ==
    h \in HandleIds /\ PollStep(h, "flush", <<>>, PollFlush(handles[h]))

ShutdownStep(h) ==
    h \in HandleIds /\ PollStep(h, "shutdown", <<>>, PollShutdown(handles[h]))

PollReadReadyStep(h) ==
    h \in HandleIds /\ PollStep(h, "poll_read_ready", <<>>, PollReadReady(handles[h]))

PollWriteReadyStep(h) ==
    h \in HandleIds /\ PollStep(h, "poll_write_ready", <<>>, PollWriteReady(handles[h]))

SetTimesStep(h, atime, mtime) ==
    /\ h \in HandleIds
    /\ LET r == SetTimes(handles[h], atime, mtime)
       IN  FileStep(h, r.file,
                    [Blank EXCEPT !.op = "set_times", !.h = h,
                                  !.times = <<atime, mtime>>,
                                  !.ret = St(r.ret)])

SetLenStep(h, new_size) ==
    /\ h \in HandleIds
    /\ LET r == SetLen(handles[h], new_size)
       IN  SyncStep(h, "set_len", new_size, r, r.ret)

UnlinkStep(h) ==
    /\ h \in HandleIds
    /\ LET r == Unlink(handles[h]) IN SyncStep(h, "unlink", 0, r, r.ret)

WriteFromMmapStep(h, offset, len) ==
    /\ h \in HandleIds
    /\ LET r == WriteFromMmap(handles[h], offset, len)
       IN  FileStep(h, r.file,
                    [Blank EXCEPT !.op = "write_from_mmap", !.h = h,
                                  !.cap = offset, !.cap2 = len,
                                  !.ret = St(r.ret)])

SizeStep(h) ==
    /\ h \in HandleIds
    /\ LET r == Size(handles[h]) IN SyncStep(h, "size", 0, r, Ok(r.ret))

LastAccessedStep(h) ==
    /\ h \in HandleIds
    /\ LET r == LastAccessed(handles[h])
       IN  SyncStep(h, "last_accessed", 0, r, Ok(r.ret))

LastModifiedStep(h) ==
    /\ h \in HandleIds
    /\ LET r == LastModified(handles[h])
       IN  SyncStep(h, "last_modified", 0, r, Ok(r.ret))

CreatedTimeStep(h) ==
    /\ h \in HandleIds
    /\ LET r == CreatedTime(handles[h])
       IN  SyncStep(h, "created_time", 0, r, Ok(r.ret))

IsOpenStep(h) ==
    /\ h \in HandleIds
    /\ LET r == IsOpen(handles[h])
       IN  FileStep(h, r.file,
                    [Blank EXCEPT !.op = "is_open", !.h = h, !.flag = r.ret])

GetSpecialFdStep(h) ==
    /\ h \in HandleIds
    /\ LET r == GetSpecialFd(handles[h])
       IN  FileStep(h, r.file,
                    [Blank EXCEPT !.op = "get_special_fd", !.h = h,
                                  !.recs = <<r.ret>>])

\* copy_reference from a source: the event tells whether the first poll of
\* the future reported Pending and what the future ended with
CopyReferenceStep(h, name) ==
    /\ h \in HandleIds
    /\ LET r == CopyReference(handles[h], Sources[name])
       IN  FileStep(h, r.file,
                    [Blank EXCEPT !.op = "copy_reference", !.h = h,
                                  !.src = name,
                                  !.poll = IF r.suspended THEN "Pending"
                                           ELSE "Ready",
                                  !.flag = r.done,
                                  !.ret = St(r.ret)])

\* arguments of the calls
MountNames == {<<109>>}

\* Option<u64> arguments of set_times
Times == {<<[some |-> FALSE, val |-> 0], [some |-> FALSE, val |-> 0]>>,
          <<[some |-> TRUE, val |-> 7], [some |-> TRUE, val |-> 9]>>}

Lens == {0, 3}

EndSeeks == {p \in SeekPositions : p.whence = "End"}

\* paths handed to the operations that never look at them
AnyPaths == {PathA, PathBad}


FsNext ==
    \/ \E path \in AnyPaths :
          \/ ReadlinkStep(path)
          \/ ReadDirStep(path)
          \/ CreateDirStep(path)
          \/ RemoveDirStep(path)
          \/ SymlinkMetadataStep(path)
          \/ RemoveFileStep(path)
          \/ RenameStep(path, PathE)
          \/ \E name \in MountNames : MountStep(name, path)
    \/ \E path \in Paths : MetadataStep(path)
    \/ NewOpenOptionsStep
    \/ \E c \in Contexts :
          \/ \E path \in Paths, conf \in Confs : OpenCall(c, path, conf)
          \/ FetchComplete(c)
          \/ OpenReturn(c)

\* every handle id a run can reach; a step on h needs h \in HandleIds
HandleSlots == 1..MaxOpens

FileNext ==
    \E h \in HandleSlots :
       \/ \E cap \in Caps : ReadStep(h, cap)
       \/ \E p \in SeekPositions : SeekStep(h, p)
       \/ \E p \in SeekPositions : SeekThenRead(h, p, 5)
       \/ \E cap \in Caps \ {0}, p \in EndSeeks : ReadSeekRead(h, cap, p)
       \/ \E buf \in WriteBufs : WriteStep(h, buf)
       \/ FlushStep(h)
       \/ ShutdownStep(h)
       \/ PollReadReadyStep(h)
       \/ PollWriteReadyStep(h)
       \/ \E t \in Times : SetTimesStep(h, t[1], t[2])
       \/ \E n \in Lens : SetLenStep(h, n)
       \/ UnlinkStep(h)
       \/ WriteFromMmapStep(h, 0, 3)
       \/ SizeStep(h)
       \/ LastAccessedStep(h)
       \/ LastModifiedStep(h)
       \/ CreatedTimeStep(h)
       \/ IsOpenStep(h)
       \/ GetSpecialFdStep(h)
       \/ \E name \in DOMAIN Sources : CopyReferenceStep(h, name)

Next == FsNext \/ FileNext

Spec == Init /\ [][Next]_vars

\* block_on parks the calling thread and is woken when the future is ready:
\* a context whose fetch has completed does return from open.  Nothing is
\* assumed about the client completing a fetch.
FairSpec == Spec /\ \A c \in Contexts : WF_vars(OpenReturn(c))

----------------------------------------------------------------------------
(* Properties *)

Min(a, b) == IF a < b THEN a ELSE b

\* the handle a step acted on, before and after the step
PreFile == last.preHandles[last.h]

PostFile == handles[last.h]

\* a handle no call has moved: it equals what IpfsFile::new built
Fresh(file) == file = IpfsFile_new(file.path, file.cursor.inner)

\* C1: a read with a buffer of capacity n at cursor c copies exactly
\* B[c .. c+m], m = min(n, len(B) - c), reports m and leaves the cursor at c+m.
C1_ReadCopiesFromCursor ==
    last.op = "read" =>
        LET B == PreFile.cursor.inner
            c == PreFile.cursor.pos
            m == Min(last.cap, Len(B) - c)
        IN  (c >= 0 /\ c <= Len(B)) =>
               /\ last.ret.ok
               /\ last.n = m
               /\ last.out = SubSeq(B, c + 1, c + m)
               /\ PostFile.cursor.pos = c + m

\* C2: seeking to absolute offset k <= N and then reading with capacity at
\* least N - k yields the suffix B[k..]; seeking beyond N and then reading
\* yields 0 bytes and no error.
C2_SeekRoundTrip ==
    (last.op = "seek_read" /\ last.pos.whence = "Start") =>
        LET B == PreFile.cursor.inner
            N == PreFile.size
            k == last.pos.off
        IN  /\ (k <= N /\ last.cap >= N - k) =>
                  /\ last.sret.ok
                  /\ last.ret.ok
                  /\ last.out = SubSeq(B, k + 1, N)
            /\ (k > N) =>
                  /\ last.sret.ok
                  /\ last.ret.ok
                  /\ last.n = 0
                  /\ last.out = <<>>

\* C3: on a fresh handle of size N a read that returned n bytes leaves the
\* cursor at n; a following seek to End(-m), 0 <= m <= N, sets the cursor to
\* N - m and reports N - m; the next read of capacity m returns B[N-m..].
\* For "hello world": read 5 gives "hello", End(-5) gives 6, read 5 "world".
C3_ReadThenSeekFromEnd ==
    (last.op = "read_seek_read" /\ Fresh(PreFile)) =>
        LET B == PreFile.cursor.inner
            N == PreFile.size
            m == -last.pos.off
        IN  (m >= 0 /\ m <= N) =>
               /\ last.ret.ok
               /\ last.mid[1].cursor.pos = last.n
               /\ last.sret.ok
               /\ last.sn = N - m
               /\ last.mid[2].cursor.pos = N - m
               /\ last.ret2.ok
               /\ last.out2 = SubSeq(B, N - m + 1, N)
               /\ (B = HelloWorld /\ last.cap = 5 /\ m = 5) =>
                     /\ last.out = <<104, 101, 108, 108, 111>>
                     /\ last.mid[1].cursor.pos = 5
                     /\ last.mid[2].cursor.pos = 6
                     /\ last.out2 = <<119, 111, 114, 108, 100>>

\* the step is open returning after its fetch completed
OpenReturned == last.op = "open" /\ last.poll = "ready"

\* C4: when the fetch fails, for any reason, open returns the IOError kind
\* and creates no handle: the handles are the same as before the call.
C4_FetchFailureIsIOError ==
    (OpenReturned /\ ~last.sret.ok) =>
        /\ last.ret = FsErr("IOError")
        /\ last.h = 0
        /\ handles = last.preHandles

\* C4 witness: open has returned from a failed fetch of a missing key while
\* another handle exists
C4_Witness ==
    /\ OpenReturned
    /\ last.sret = IoErr("notfound")
    /\ last.path = PathMissing
    /\ Len(handles) = 1

\* C5 as stated: after any k open calls exactly k fetches were issued.
C5_OneFetchPerOpen == fetches = opens

\* C5 amended: the number of fetches issued equals the number of open calls
\* whose path converts to a key; the other open calls issue none.
C5_OneFetchPerKeyedOpen ==
    /\ fetches = keyed
    /\ (last.op \in {"open", "open_call"} /\ last.poll # "ready") =>
          Len(last.requests) = (IF ValidUtf8(last.path) THEN 1 ELSE 0)

\* C5 witness: the same path was opened twice, the second time while a handle
\* from the first open exists, and two fetches were issued
C5_Witness ==
    /\ last.op = "open_call"
    /\ last.path = PathA
    /\ \E h \in HandleIds : handles[h].path = PathA
    /\ opens = 2
    /\ fetches = 2

\* C6: every handle's size equals the length of the fetched content, its
\* buffer is the fetched content, its cursor is within [0, size], and size()
\* reports that length.
C6_HandleInvariant ==
    /\ \A h \in HandleIds :
          /\ handles[h].path \in DOMAIN Store
          /\ handles[h].cursor.inner = Store[handles[h].path]
          /\ handles[h].size = Len(handles[h].cursor.inner)
          /\ handles[h].cursor.pos >= 0
          /\ handles[h].cursor.pos <= handles[h].size
    /\ (OpenReturned /\ last.ret.ok) =>
          /\ PostFile.cursor.inner = last.fetched
          /\ PostFile.size = Len(last.fetched)
    /\ last.op = "size" => last.n = Len(Store[PostFile.path])

\* C6 witness: a seek whose target is negative, or beyond the end, was made
C6_Witness ==
    /\ last.op \in {"seek", "seek_read"}
    /\ \/ last.pos = SeekEnd(-5) /\ PreFile.size = 2
       \/ last.pos = SeekStart(12) /\ PreFile.size = 11

WritePathOps == {"write", "flush", "shutdown", "set_len", "unlink", "set_times"}

\* C7: write, flush, shutdown, set_len, unlink and set_times always fail with
\* the Unsupported kind and leave every handle as it was.
C7_WritePathUnsupported ==
    last.op \in WritePathOps =>
        /\ ~last.ret.ok
        /\ last.ret.kind = "Unsupported"
        /\ handles = last.preHandles

\* C7 witness: a write of a non-empty buffer was made on a handle
C7_Witness ==
    /\ last.op = "write"
    /\ last.data = Hi
    /\ PreFile.cursor.inner = HelloWorld

RejectedFsOps == {"readlink", "read_dir", "create_dir", "remove_dir",
                  "remove_file", "rename", "symlink_metadata", "mount"}

\* C8: readlink, read_dir, create_dir, remove_dir, remove_file, rename,
\* symlink_metadata and mount fail with Unsupported, issue no fetch and change
\* neither the adapter nor any handle.
C8_FsOpsUnsupported ==
    last.op \in RejectedFsOps =>
        /\ last.ret = FsErr("Unsupported")
        /\ last.requests = <<>>
        /\ fetches = last.preFetches
        /\ fs = last.preFs
        /\ handles = last.preHandles

\* C8 witness: remove_file was called while a handle exists and an open is
\* blocked on its fetch
C8_Witness ==
    /\ last.op = "remove_file"
    /\ Len(handles) = 1
    /\ \E c \in Contexts : ctx[c].pc = "open"

\* C9: metadata succeeds for every path with the default record and issues no
\* fetch, whatever the client would answer for the path.
C9_MetadataNeverFails ==
    last.op = "metadata" =>
        /\ last.ret.ok
        /\ last.recs = <<DefaultMetadata>>
        /\ last.requests = <<>>
        /\ fetches = last.preFetches

\* C9 witness: metadata succeeded for a path while an open of the same path
\* holds a fetch that failed
C9_Witness ==
    /\ last.op = "metadata"
    /\ last.path = PathMissing
    /\ last.ret.ok
    /\ \E c \in Contexts :
          /\ ctx[c].pc = "open"
          /\ ctx[c].path_str = PathMissing
          /\ ctx[c].fut.state = "ready"
          /\ ~ctx[c].fut.res.ok

\* C10: open of a path that is no valid key fails with EntryNotFound before
\* any fetch: no fetch is issued, the caller does not wait, no handle is made.
C10_BadPathIsEntryNotFound ==
    /\ (last.op = "open" /\ ~ValidUtf8(last.path)) =>
          /\ last.ret = FsErr("EntryNotFound")
          /\ last.requests = <<>>
          /\ last.poll = "sync"
          /\ fetches = last.preFetches
          /\ handles = last.preHandles
    /\ last.op = "open_call" => ValidUtf8(last.path)
    /\ \A c \in Contexts : ctx[c].pc = "open" => ValidUtf8(ctx[c].path_str)

\* C10 witness: open was called with the path that is not valid UTF-8
C10_Witness ==
    /\ last.op = "open"
    /\ last.path = PathBad
    /\ fetches = 1

\* a context is inside open, waiting for a fetch that has not completed
Waiting(c) == ctx[c].pc = "open" /\ ctx[c].fut.state = "pending"

\* a context is inside open and its fetch has completed
Fetched(c) == ctx[c].pc = "open" /\ ctx[c].fut.state = "ready"

\* C11: open never returns before the fetch it issued has completed; once
\* the fetch has completed open eventually returns (a handle or IOError): no
\* caller stays in open with a completed fetch; and while the fetch has not
\* completed no step takes the caller out of open.
C11_OpenWaitsForFetch ==
    /\ [](last.op = "open" /\ last.requests = <<>> /\ ValidUtf8(last.path) =>
             /\ last.poll = "ready"
             /\ last.ret.ok = last.sret.ok
             /\ last.ret.ok => PostFile = IpfsFile_new(last.path, last.fetched)
             /\ ~last.ret.ok => last.ret = FsErr("IOError"))
    /\ [][\A c \in Contexts : Waiting(c) => ctx'[c].pc = "open"]_vars
    /\ \A c \in Contexts : []<>(~Fetched(c))

\* C11 witness: one context has returned from open with a handle while the
\* other is still inside open, its fetch not completed
C11_Witness ==
    /\ OpenReturned
    /\ last.ret.ok
    /\ \E c \in Contexts : Waiting(c)


----------------------------------------------------------------------------
(* C12: the blocking points *)

\* the first poll_read of a source is Pending
FirstReadPending(name) == SrcRead(Sources[name]).poll = "Pending"

\* the operations of the adapter and of a handle other than open
OtherOps ==
    RejectedFsOps \cup WritePathOps \cup
    {"metadata", "new_open_options", "read", "seek", "seek_read",
     "read_seek_read", "poll_read_ready", "poll_write_ready",
     "size", "last_accessed", "last_modified", "created_time", "is_open",
     "get_special_fd", "write_from_mmap", "copy_reference"}

\* C12 as stated: every operation other than open, copy_reference included,
\* completes on its first poll.
C12_OnlyOpenBlocks ==
    last.op \in OtherOps => last.poll # "Pending"

\* C12 amended: every operation other than open and copy_reference completes
\* on its first poll, and so does copy_reference from a source whose first
\* read is ready; copy_reference from a source whose first read is Pending is
\* Pending on its first poll.  An open that issued a fetch has not returned.
C12_OnlyOpenAndCopyBlock ==
    /\ last.op \in OtherOps \ {"copy_reference"} => last.poll # "Pending"
    /\ last.op = "copy_reference" =>
          (last.poll = "Pending" <=> FirstReadPending(last.src))
    /\ last.op = "open_call" =>
          /\ last.poll = "Pending"
          /\ \E c \in Contexts : Waiting(c)
          /\ handles = last.preHandles

\* C12 witness: a copy from a ready source completed on its first poll on a
\* handle while another caller is blocked in open
C12_Witness ==
    /\ last.op = "copy_reference"
    /\ ~FirstReadPending(last.src)
    /\ last.poll = "Ready"
    /\ \E c \in Contexts : Waiting(c)

----------------------------------------------------------------------------
(* C13: handle isolation *)

\* C13: a step changes no handle other than the one it was called on, takes
\* no handle away, and never changes the adapter; a handle that open returns
\* is a new one next to the handles there were.
C13_HandlesIsolated ==
    /\ Len(handles) >= Len(last.preHandles)
    /\ \A h \in DOMAIN last.preHandles :
          h # last.h => handles[h] = last.preHandles[h]
    /\ (last.op = "open" /\ last.ret.ok) =>
          /\ last.h = Len(last.preHandles) + 1
          /\ Len(handles) = last.h
    /\ last.op # "open" => Len(handles) = Len(last.preHandles)
    /\ fs = last.preFs
    /\ fs = IpfsFs_new("client")

\* C13 witness: a call on a handle went through while another caller was in
\* an open of the same path, its fetch completed and its handle not yet made
C13_Witness ==
    /\ last.op \in {"seek_read", "copy_reference", "write"}
    /\ last.h = 1
    /\ Len(handles) = 1
    /\ \E c \in Contexts :
          /\ Fetched(c)
          /\ ctx[c].fut.res.ok
          /\ ctx[c].path_str = handles[1].path

----------------------------------------------------------------------------
(* C14: copy_reference *)

\* the reads of a source never fail
ReadsSucceed(name) ==
    \A i \in 1..Len(Sources[name].script) : Sources[name].script[i].t # "err"

\* the error of the first read of a source that is not Pending
RECURSIVE FirstReadError(_)
FirstReadError(script) ==
    IF script = <<>> THEN Ok(Unit)
    ELSE IF Head(script).t = "pending" THEN FirstReadError(Tail(script))
    ELSE IF Head(script).t = "err" THEN IoErr(Head(script).kind)
    ELSE Ok(Unit)

\* C14 as stated: copy_reference from any source fails with Unsupported and
\* leaves the handle as it was.
C14_CopyAlwaysUnsupported ==
    last.op = "copy_reference" =>
        /\ last.ret = IoErr("Unsupported")
        /\ PostFile = PreFile

\* C14 amended: copy_reference never reports success and leaves the handle as
\* it was; from a source whose reads succeed it fails with Unsupported (the
\* write of the first chunk, or the flush at end-of-file), and when the first
\* read of the source fails it fails with that read's error.
C14_CopyFailsFirstError ==
    last.op = "copy_reference" =>
        /\ last.flag
        /\ ~last.ret.ok
        /\ PostFile = PreFile
        /\ handles = last.preHandles
        /\ ReadsSucceed(last.src) => last.ret = IoErr("Unsupported")
        /\ ~FirstReadError(Sources[last.src].script).ok =>
              last.ret = FirstReadError(Sources[last.src].script)

\* C14 witness: a copy from a source that had bytes to give failed on the
\* write of them
C14_Witness ==
    /\ last.op = "copy_reference"
    /\ last.src = "data"
    /\ last.ret = IoErr("Unsupported")
    /\ PostFile = IpfsFile_new(PathA, HelloWorld)

----------------------------------------------------------------------------
(* C15: open and the open options *)

\* C15: open does not look at conf: the first half of open is the same for
\* every conf, and what open returns is fixed by the path and the outcome of
\* the fetch alone; a handle opened for writing still rejects every write.
C15_OpenIgnoresConf ==
    /\ \A path \in Paths, c1 \in Confs, c2 \in Confs :
          OpenBegin(fs, path, c1) = OpenBegin(fs, path, c2)
    /\ (last.op = "open" /\ ~ValidUtf8(last.path)) =>
          last.ret = FsErr("EntryNotFound")
    /\ (last.op = "open" /\ ValidUtf8(last.path)) =>
          /\ last.poll = "ready"
          /\ last.sret.ok =>
                /\ last.ret.ok
                /\ PostFile = IpfsFile_new(last.path, last.fetched)
                /\ \A buf \in WriteBufs :
                      PollWrite(PostFile, buf) =
                         FileReply(PostFile, Ready(IoErr("Unsupported")))
          /\ ~last.sret.ok => last.ret = FsErr("IOError")
    /\ last.op = "open_call" => ValidUtf8(last.path) /\ last.requests = <<last.path>>

\* C15 witness: an open that asked for write access returned a handle while
\* a read-only open of the same path is under way
C15_Witness ==
    /\ OpenReturned
    /\ last.conf = ConfWrite
    /\ last.ret.ok
    /\ \E c \in Contexts :
          /\ ctx[c].pc = "open"
          /\ ctx[c].path_str = last.path
          /\ ctx[c].conf = ConfReadOnly

====
